---- MODULE Spec2Model ----
(***************************************************************************)
(* Model of the mock REST server of src/server.py (class JsonServer), its  *)
(* bundled middleware units (src/middleware/*.py), the filter of           *)
(* src/collection_utils.py and the control-panel callbacks of src/gui.py.  *)
(*                                                                         *)
(* Scheduling.  The request handlers are coroutines of one event loop: a   *)
(* handler runs without interruption by another handler from one await to  *)
(* the next.  The awaits of a handler are `await self.run_middleware(..)`  *)
(* (which awaits the unit's coroutine `mod.run`) and `await                *)
(* request.json()`.  The control panel runs on another thread (src/main.py *)
(* lines 12-15): its callbacks run one after the other, and they           *)
(* interleave with the handlers.                                           *)
(***************************************************************************)
EXTENDS Integers, Sequences, FiniteSets, Bags, TLC

VARIABLES
    cfg,        \* which configuration (config.json + seed files) the server was started with
    data,       \* self.data: dataset name -> list of records, for the loaded names
    fail_next,  \* self.fail_next: flag key -> bool (an absent key reads as False)
    reqs,       \* the requests in flight, a bag: each handler's position and locals
    reset,      \* reset_datasets in progress: the keys still to reload; and (history) all
                \* the keys it found loaded, and whether no handler has run since it began
    nuuid,      \* how many identifiers uuid.uuid4() has produced
    last,       \* the request that ended last: its route, response and steps (history)
                \* and, when its method body ran, the content the body returned
    armed,      \* per unit: a setting of its flag no request has been charged with (history)
    meta,       \* per registered route the metadata dict its handler holds
    boot        \* how far the start has come: phase "constructed" (JsonServer(app) done),
                \* "imported" (parse_config of server.py line 504 done), "serving"
                \* (parse_config of main.py done, the server thread and the control panel
                \* started) or "crashed" (an exception ended the process); and (history)
                \* per unit how often load_middleware imported and validated it

vars == <<cfg, data, fail_next, reqs, reset, nuuid, last, armed, meta, boot>>

\* ---------------------------------------------------------------- bounds
MaxInFlight == 2
MaxPosts == 1

\* ---------------------------------------------------------------- values
\* A JSON / Python value is <<type, text>>, text being what str() gives.
Int1 == <<"int", "1">>
Str1 == <<"str", "1">>
Str2 == <<"str", "2">>
StrA == <<"str", "a">>
StrB == <<"str", "b">>
NoneVal == <<"NoneType", "None">>
Float1 == <<"float", "1.0">>
BoolTrue == <<"bool", "True">>

str(v) == v[2]

UuidText(n) == CASE n = 1 -> "u1" [] n = 2 -> "u2" [] n = 3 -> "u3" [] OTHER -> "u4"
uuid4(n) == <<"str", UuidText(n)>>

\* A mapping (dict) is a function on its keys.
EmptyDict == [k \in {} |-> NoneVal]
Get(d, k) == IF k \in DOMAIN d THEN d[k] ELSE NoneVal
\* {**a, **b}: the keys of both, b's value where both have the key
Merge(a, b) == [k \in DOMAIN a \cup DOMAIN b |-> IF k \in DOMAIN b THEN b[k] ELSE a[k]]
\* d[k] = v
Put(d, k, v) == [x \in DOMAIN d \cup {k} |-> IF x = k THEN v ELSE d[x]]
Truthy(d, k) == k \in DOMAIN d /\ d[k] = TRUE

\* ---------------------------------------------------------------- responses
\* JSONResponse(status_code, content={"error": ...}); content kept where a claim reads it
Response(status, err) == [status |-> status, err |-> err]
None == Response(0, "None")
\* an exception that leaves the handler: the framework answers 500 without a JSON body
Unhandled(why) == Response(500, why)
Exceptions ==
    {"TypeError: cannot unpack", "Middleware not found", "KeyError", "TypeError: body",
     "AttributeError: body"}

\* ---------------------------------------------------------------- configuration
Units == {"auth_token", "input_check", "permissions_token"}

\* request.headers.get("Authorization"): absent, or "Bearer <token>"
NoHeader == <<>>
Bearer(token) == <<"Bearer", token>>
Headers == {NoHeader, Bearer("validtoken123"), Bearer("admintoken123")}

SampleMiddlewareConfig ==
    [auth_token |-> [accepted_token |-> "validtoken123", flag_driven |-> TRUE],
     input_check |-> [flag_driven |-> TRUE],
     permissions_token |->
        [accepted_tokens |-> [admin |-> "admintoken123", user |-> "usertoken123"],
         flag_driven |-> TRUE]]

Route(method, endpoint, pathkeys, data_set, middleware, metadata) ==
    [method |-> method, endpoint |-> endpoint, pathkeys |-> pathkeys,
     data_set |-> data_set, middleware |-> middleware, metadata |-> metadata]

\* An item of a seed list that is not an object, wrapped so that it sits among the records
NotAnObject(v) == [not_an_object |-> v]

ItemsSeed == << [id |-> Int1, name |-> StrA], [id |-> Str2, name |-> StrA] >>
UsersSeed == << [id |-> Str1, name |-> StrB] >>

\* The configurations the server is started with: config.json ("middleware", "routes")
\* and the seed files <data_set>.json.
Configs == <<
    \* a chain of two units, the first of which can let a request pass
    [middleware |-> [permissions_token |-> SampleMiddlewareConfig["permissions_token"],
                     input_check |-> SampleMiddlewareConfig["input_check"]],
     routes |-> <<
        Route("GET", "/items/{id}", {"id"}, "items", <<"permissions_token", "input_check">>,
              [singular_response |-> TRUE, accepted_roles |-> <<"admin", "user">>]) >>,
     seed |-> [items |-> ItemsSeed]],
    \* two datasets; a chain that starts with auth_token, and a route without middleware
    [middleware |-> [auth_token |-> SampleMiddlewareConfig["auth_token"],
                     permissions_token |-> SampleMiddlewareConfig["permissions_token"]],
     routes |-> <<
        Route("GET", "/users", {}, "users", <<"auth_token", "permissions_token">>, EmptyDict),
        Route("GET", "/items", {}, "items", <<>>, EmptyDict) >>,
     seed |-> [items |-> ItemsSeed, users |-> UsersSeed]],
    \* create, update and delete on one dataset, no middleware
    [middleware |-> EmptyDict,
     routes |-> <<
        Route("POST", "/items", {}, "items", <<>>, [creates_entry |-> TRUE]),
        Route("PUT", "/items", {}, "items", <<>>, EmptyDict),
        Route("DELETE", "/items", {}, "items", <<>>, EmptyDict) >>,
     seed |-> [items |-> ItemsSeed]],
    \* a route that changes its dataset behind a middleware unit
    [middleware |-> [permissions_token |-> SampleMiddlewareConfig["permissions_token"]],
     routes |-> <<
        Route("DELETE", "/items", {}, "items", <<"permissions_token">>,
              [singular_response |-> TRUE, accepted_roles |-> <<"admin">>]) >>,
     seed |-> [items |-> ItemsSeed]],
    \* without middleware: a list route with a path parameter, a singular route, and a
    \* POST route that stores nothing
    [middleware |-> EmptyDict,
     routes |-> <<
        Route("GET", "/items/{id}", {"id"}, "items", <<>>, EmptyDict),
        Route("GET", "/items", {}, "items", <<>>, [singular_response |-> TRUE]),
        Route("POST", "/items", {}, "items", <<>>, EmptyDict) >>,
     seed |-> [items |-> ItemsSeed]],
    \* two datasets, the one loaded first behind a route that changes it
    [middleware |-> EmptyDict,
     routes |-> <<
        Route("DELETE", "/items/{id}", {"id"}, "items", <<>>, EmptyDict),
        Route("GET", "/users", {}, "users", <<>>, EmptyDict) >>,
     seed |-> [items |-> ItemsSeed, users |-> UsersSeed]],
    \* a unit whose configuration lacks a required key, and a key without a module
    [middleware |-> [auth_token |-> [flag_driven |-> TRUE], no_such_unit |-> EmptyDict],
     routes |-> << Route("GET", "/users", {}, "users", <<"auth_token">>, EmptyDict) >>,
     seed |-> [users |-> UsersSeed]],
    \* a chain that names a unit the middleware mapping does not have
    [middleware |-> [permissions_token |-> SampleMiddlewareConfig["permissions_token"]],
     routes |-> << Route("GET", "/items", {}, "items", <<"input_check">>, EmptyDict) >>,
     seed |-> [items |-> ItemsSeed]],
    \* route tables with a malformed entry: a method that is none of the four, no
    \* data_set, a chain that names a unit without a module file
    [middleware |-> EmptyDict,
     routes |-> <<
        Route("GET", "/items", {}, "items", <<>>, EmptyDict),
        Route("PATCH", "/users", {}, "users", <<>>, EmptyDict) >>,
     seed |-> [items |-> ItemsSeed, users |-> UsersSeed]],
    [middleware |-> EmptyDict,
     routes |-> <<
        Route("GET", "/items", {}, "items", <<>>, EmptyDict),
        [method |-> "GET", endpoint |-> "/users", pathkeys |-> {}, middleware |-> <<>>,
         metadata |-> EmptyDict] >>,
     seed |-> [items |-> ItemsSeed, users |-> UsersSeed]],
    [middleware |-> EmptyDict,
     routes |-> << Route("GET", "/items", {}, "items", <<"no_such_unit">>, EmptyDict) >>,
     seed |-> [items |-> ItemsSeed]],
    \* a seed file that is missing, and one whose top level is not a list
    [middleware |-> EmptyDict,
     routes |-> <<
        Route("GET", "/items", {}, "items", <<>>, EmptyDict),
        Route("POST", "/items", {}, "items", <<>>, [creates_entry |-> TRUE]) >>,
     seed |-> EmptyDict],
    [middleware |-> EmptyDict,
     routes |-> << Route("GET", "/items", {}, "items", <<>>, EmptyDict) >>,
     seed |-> [items |-> ItemsSeed],
     not_a_list |-> {"items"}],
    \* seed lists with a bad record: two records of one id, a record without id, a
    \* record with an empty id, an item that is not an object
    [middleware |-> EmptyDict,
     routes |-> << Route("GET", "/items", {}, "items", <<>>, EmptyDict) >>,
     seed |-> [items |-> << [id |-> Int1, name |-> StrA], [id |-> Int1, name |-> StrB] >>]],
    [middleware |-> EmptyDict,
     routes |-> <<
        Route("GET", "/users", {}, "users", <<>>, EmptyDict),
        Route("GET", "/items", {}, "items", <<>>, EmptyDict) >>,
     seed |-> [users |-> UsersSeed, items |-> << [id |-> Int1, name |-> StrA], [name |-> StrB] >>]],
    [middleware |-> EmptyDict,
     routes |-> << Route("GET", "/items", {}, "items", <<>>, EmptyDict) >>,
     seed |-> [items |-> << [id |-> <<"str", "">>, name |-> StrA] >>]],
    [middleware |-> EmptyDict,
     routes |-> << Route("GET", "/items", {}, "items", <<>>, EmptyDict) >>,
     seed |-> [items |-> << [id |-> Int1, name |-> StrA], NotAnObject(StrA) >>]],
    \* a config.json that is not a JSON object
    [middleware |-> EmptyDict, routes |-> <<>>, seed |-> EmptyDict, not_a_dict |-> TRUE],
    \* two routes behind the same unit
    [middleware |-> [permissions_token |-> SampleMiddlewareConfig["permissions_token"]],
     routes |-> <<
        Route("GET", "/items", {}, "items", <<"permissions_token">>,
              [accepted_roles |-> <<"admin">>]),
        Route("GET", "/things", {}, "items", <<"permissions_token">>,
              [accepted_roles |-> <<"admin", "user">>]) >>,
     seed |-> [items |-> ItemsSeed]],
    \* a route behind permissions_token whose metadata has no accepted_roles
    [middleware |-> [permissions_token |-> SampleMiddlewareConfig["permissions_token"]],
     routes |-> <<
        Route("GET", "/items", {}, "items", <<"permissions_token">>, EmptyDict) >>,
     seed |-> [items |-> ItemsSeed]],
    \* create and update on a dataset whose seed record has an id and nothing else
    [middleware |-> EmptyDict,
     routes |-> <<
        Route("POST", "/items", {}, "items", <<>>, EmptyDict),
        Route("PUT", "/items", {}, "items", <<>>, EmptyDict) >>,
     seed |-> [items |-> << [id |-> Int1] >>]],
    \* a permissions_token configuration without accepted_tokens
    [middleware |-> [permissions_token |-> [flag_driven |-> TRUE]],
     routes |-> <<
        Route("GET", "/items", {}, "items", <<"permissions_token">>,
              [accepted_roles |-> <<"admin">>]) >>,
     seed |-> [items |-> ItemsSeed]] >>

middleware_config == Configs[cfg].middleware

\* RouteConfig(**route), server.py 16-34: whether the entry passes validation.  The check
\* of a middleware name is that the file middleware/<name>.py exists.
RouteConfigValid(route) ==
    /\ {"endpoint", "data_set", "method"} \subseteq DOMAIN route
    /\ route.method \in {"GET", "POST", "PUT", "DELETE"}
    /\ \A n \in DOMAIN route.middleware : route.middleware[n] \in Units

\* server.py 422: routes = [RouteConfig(**route) for route in route_config] raises
\* ValidationError for the first entry that does not pass
ValidationError == \E n \in DOMAIN Configs[cfg].routes : ~RouteConfigValid(Configs[cfg].routes[n])

\* The routes parse_config registers (server.py 422-431): the whole table, or none when
\* ValidationError was raised before the loop that registers them.
routes == IF ValidationError THEN <<>> ELSE Configs[cfg].routes
RouteIds == DOMAIN routes
\* self.middleware after load_middleware: the modules it could import, one per key of the
\* config's mapping (server.py 451-455)
middleware == DOMAIN middleware_config \cap Units

\* the flag keys: f"{method}:{endpoint}" and f"middleware:{name}"
RouteKey(method, endpoint) == <<method, endpoint>>
MiddlewareKey(name) == <<"middleware", name>>
KeyOf(rt) == RouteKey(routes[rt].method, routes[rt].endpoint)
Keys == {KeyOf(rt) : rt \in RouteIds} \cup {MiddlewareKey(m) : m \in middleware}

\* ---------------------------------------------------------------- middleware units
\* What a unit's run returns: a bare response or None (Bare), or a pair
\* (response, should_clear_flag) (Pair).
Bare(resp) == [pair |-> FALSE, resp |-> resp, clear |-> FALSE]
Pair(resp, clear) == [pair |-> TRUE, resp |-> resp, clear |-> clear]

\* middleware/auth_token.py run
AuthTokenRun(auth_header, config, metadata) ==
    IF "accepted_token" \notin DOMAIN config
    THEN Bare(Response(500, "Missing required config key"))
    ELSE IF auth_header = NoHeader
    THEN Bare(Response(401, "Missing Authorization header"))
    ELSE IF Truthy(config, "flag_driven") /\ Truthy(metadata, "fail_next")
    THEN Bare(Response(403, "Simulated auth failure"))
    ELSE IF auth_header # Bearer(config["accepted_token"])
    THEN Bare(Response(401, "Unauthorized"))
    ELSE Bare(None)

\* middleware/input_check.py run
InputCheckRun(auth_header, config, metadata) ==
    IF Truthy(config, "flag_driven") /\ Truthy(metadata, "fail_next")
    THEN Bare(Response(400, "Simulated input validation failure"))
    ELSE Bare(None)

\* a variant that looks at fail_next before it looks for the two required keys
PermissionsTokenRun_flag_first(auth_header, config, metadata) ==
    IF Truthy(metadata, "fail_next")
    THEN Pair(Response(403, "Simulated auth failure"), TRUE)
    ELSE IF "accepted_tokens" \notin DOMAIN config
    THEN Pair(Response(500, "Missing required config key"), FALSE)
    ELSE IF "accepted_roles" \notin DOMAIN metadata
    THEN Pair(Response(500, "Missing required metadata key"), FALSE)
    ELSE IF auth_header = NoHeader
    THEN Pair(Response(401, "Missing Authorization header"), FALSE)
    ELSE LET accepted_tokens == config["accepted_tokens"]
             accepted_roles == metadata["accepted_roles"]
         IN IF \E n \in DOMAIN accepted_roles :
                   /\ accepted_roles[n] \in DOMAIN accepted_tokens
                   /\ auth_header = Bearer(accepted_tokens[accepted_roles[n]])
            THEN Pair(None, FALSE)
            ELSE Pair(Response(401, "Unauthorized"), FALSE)

\* middleware/permissions_token.py run
PermissionsTokenRun(auth_header, config, metadata) ==
    IF "accepted_tokens" \notin DOMAIN config
    THEN Pair(Response(500, "Missing required config key"), FALSE)
    ELSE IF "accepted_roles" \notin DOMAIN metadata
    THEN Pair(Response(500, "Missing required metadata key"), FALSE)
    ELSE IF Truthy(metadata, "fail_next")
    THEN Pair(Response(403, "Simulated auth failure"), TRUE)
    ELSE IF auth_header = NoHeader
    THEN Pair(Response(401, "Missing Authorization header"), FALSE)
    ELSE LET accepted_tokens == config["accepted_tokens"]
             accepted_roles == metadata["accepted_roles"]
         IN IF \E n \in DOMAIN accepted_roles :
                   /\ accepted_roles[n] \in DOMAIN accepted_tokens
                   /\ auth_header = Bearer(accepted_tokens[accepted_roles[n]])
            THEN Pair(None, FALSE)
            ELSE Pair(Response(401, "Unauthorized"), FALSE)

\* mod.run(request, config, metadata) for the module loaded under `name`
ModRun(name, auth_header, config, metadata) ==
    CASE name = "auth_token" -> AuthTokenRun(auth_header, config, metadata)
      [] name = "input_check" -> InputCheckRun(auth_header, config, metadata)
      [] name = "permissions_token" -> PermissionsTokenRun(auth_header, config, metadata)

\* ---------------------------------------------------------------- run_middleware
\* server.py 377-383: the copy of the route's metadata with the flag injected
InjectFailNext(metadata, flag) == Put(metadata, "fail_next", flag)

\* a variant that hands the unit the route's own dict: the injected flag stays in it
run_middleware_metadata_shared(metadata, flag) == InjectFailNext(metadata, flag)

\* server.py 377: `metadata = dict(metadata)`; the flag is injected into the copy, and the
\* unit writes into the copy: the route's dict afterwards
run_middleware_metadata(metadata, flag) == metadata

\* a variant that never clears the flag
run_middleware_return_never_clears(name, ret, flags) ==
    IF ~ret.pair
    THEN [raised |-> TRUE, resp |-> Unhandled("TypeError: cannot unpack"), flags |-> flags]
    ELSE [raised |-> FALSE, resp |-> ret.resp, flags |-> flags]

\* a variant that clears the flag whenever the unit answers with a response
run_middleware_return_clears_on_response(name, ret, flags) ==
    IF ~ret.pair
    THEN [raised |-> TRUE, resp |-> Unhandled("TypeError: cannot unpack"), flags |-> flags]
    ELSE [raised |-> FALSE, resp |-> ret.resp,
          flags |-> IF ret.resp # None THEN [flags EXCEPT ![MiddlewareKey(name)] = FALSE]
                    ELSE flags]

\* server.py 384-387, after the unit's coroutine has returned `ret`:
\* `response, should_clear_flag = ret` raises TypeError unless ret is a pair.
\* Gives the response of run_middleware (None: continue), whether it raised, and the flags.
run_middleware_return(name, ret, flags) ==
    IF ~ret.pair
    THEN [raised |-> TRUE, resp |-> Unhandled("TypeError: cannot unpack"), flags |-> flags]
    ELSE [raised |-> FALSE, resp |-> ret.resp,
          flags |-> IF ret.clear THEN [flags EXCEPT ![MiddlewareKey(name)] = FALSE]
                    ELSE flags]

\* ---------------------------------------------------------------- route flag
\* a variant that answers 500 but leaves the flag set
check_route_failure_flag_keeps_flag(method, endpoint, flags) ==
    IF flags[RouteKey(method, endpoint)]
    THEN [resp |-> Response(500, "Simulated failure"), flags |-> flags]
    ELSE [resp |-> None, flags |-> flags]

\* a variant that resets the flag and lets the request go on to the chain
check_route_failure_flag_goes_on(method, endpoint, flags) ==
    [resp |-> None, flags |-> [flags EXCEPT ![RouteKey(method, endpoint)] = FALSE]]

\* check_route_failure_flag: the response (None: go on) and the flags afterwards
check_route_failure_flag(method, endpoint, flags) ==
    IF flags[RouteKey(method, endpoint)]
    THEN [resp |-> Response(500, "Simulated failure"),
          flags |-> [flags EXCEPT ![RouteKey(method, endpoint)] = FALSE]]
    ELSE [resp |-> None, flags |-> flags]

\* ---------------------------------------------------------------- filter engine
\* a variant that compares the values themselves, not their texts
filter_dict_by_value(list, filters) ==
    SelectSeq(list, LAMBDA item : \A k \in DOMAIN filters : Get(item, k) = filters[k])

\* collection_utils.filter_dict: str(item.get(k)) == str(v) for every filter
filter_dict(list, filters) ==
    SelectSeq(list, LAMBDA item : \A k \in DOMAIN filters : str(Get(item, k)) = str(filters[k]))

\* Python's a == b on the values of the model: int, float and bool compare by number
\* (1 == 1.0 == True), every other value by type and content
Numeric(v) == v[1] \in {"int", "float", "bool"}
NumberOf(v) ==
    CASE v[2] \in {"1", "1.0", "True"} -> 1
      [] v[2] \in {"0", "0.0", "False"} -> 0
      [] v[2] = "2" -> 2
PyEq(a, b) == IF Numeric(a) /\ Numeric(b) THEN NumberOf(a) = NumberOf(b) ELSE a = b

\* collection_utils.strict_filter_dict: item.get(k) == v for every filter
strict_filter_dict(list, filters) ==
    SelectSeq(list, LAMBDA item : \A k \in DOMAIN filters : PyEq(Get(item, k), filters[k]))

\* ---------------------------------------------------------------- request inputs
\* request.path_params / request.query_params: always text
ParamValues == {Str1, Str2, StrA}
PathParams(rt) == [routes[rt].pathkeys -> ParamValues]
QueryParams == {EmptyDict} \cup [{"name"} -> {StrA, StrB}] \cup [{"id"} -> {Str2}]

\* await request.json(): it raises (Invalid), or gives an object, or another JSON value
InvalidJson == [kind |-> "invalid"]
Obj(fields) == [kind |-> "obj", fields |-> fields]
Arr(items) == [kind |-> "arr", items |-> items]
Bodies ==
    { InvalidJson, Obj(EmptyDict), Arr(<<>>), Arr(<<"name">>),
      Obj([name |-> StrB]), Obj([name |-> StrA, id |-> Str2]), Obj([title |-> StrA]) }
\* `not body`
Falsy(body) ==
    \/ body.kind = "obj" /\ DOMAIN body.fields = {}
    \/ body.kind = "arr" /\ body.items = <<>>
\* `k in body`: a key of the object, an element of the array
In(k, body) ==
    IF body.kind = "obj" THEN k \in DOMAIN body.fields
    ELSE \E n \in DOMAIN body.items : body.items[n] = k

Now == <<"str", "now">>

\* ---------------------------------------------------------------- method bodies
\* The content of a JSONResponse besides its "error" text: one record, a list of records,
\* the names of the missing fields, or nothing more.
NoContent == [kind |-> "none", v |-> <<>>]
OneRecord(item) == [kind |-> "record", v |-> item]
RecordList(list) == [kind |-> "list", v |-> list]
FieldNames(names) == [kind |-> "fields", v |-> names]
\* the count n of an error text "{n} entries found"
Count(n) == [kind |-> "count", v |-> n]

\* Each gives the response, its content and self.data afterwards.
Result(resp, content, d) == [resp |-> resp, content |-> content, data |-> d]
Raise(why, d) == Result(Unhandled(why), NoContent, d)
Ids(list) == {list[n].id : n \in DOMAIN list}

\* a variant whose singular route answers with the first of several matches
GetBody_first_of_many(rt, d, path_params, query_params) ==
    LET route == routes[rt] IN
    IF route.data_set \notin DOMAIN d THEN Raise("KeyError", d)
    ELSE LET filtered == filter_dict(d[route.data_set], Merge(path_params, query_params)) IN
         IF filtered = <<>> THEN Result(Response(404, "Item not found"), NoContent, d)
         ELSE IF Truthy(meta[rt], "singular_response")
              THEN Result(Response(200, ""), OneRecord(filtered[1]), d)
              ELSE Result(Response(200, ""), RecordList(filtered), d)

\* add_get_route.handler, server.py 96-120
GetBody(rt, d, path_params, query_params) ==
    LET route == routes[rt] IN
    IF route.data_set \notin DOMAIN d THEN Raise("KeyError", d)
    ELSE LET filtered == filter_dict(d[route.data_set], Merge(path_params, query_params)) IN
         IF filtered = <<>> THEN Result(Response(404, "Item not found"), NoContent, d)
         ELSE IF Truthy(meta[rt], "singular_response")
              THEN IF Len(filtered) = 1
                   THEN Result(Response(200, ""), OneRecord(filtered[1]), d)
                   ELSE Result(Response(400, "entries found"), Count(Len(filtered)), d)
              ELSE Result(Response(200, ""), RecordList(filtered), d)

\* a variant that keeps an id the client supplied
AssignId_keeps_client_id(fields, n) ==
    IF "id" \in DOMAIN fields THEN fields ELSE Put(fields, "id", uuid4(n))

\* server.py 179: body["id"] = str(uuid.uuid4())
AssignId(fields, n) == Put(fields, "id", uuid4(n))

\* a variant that stores the record whatever the route's metadata says
StoreEntry_always(rt, d, entry) ==
    Result(Response(200, ""), OneRecord(entry),
           [d EXCEPT ![routes[rt].data_set] = Append(d[routes[rt].data_set], entry)])

\* server.py 184-194: the record is appended when the metadata has creates_entry
StoreEntry(rt, d, entry) ==
    IF Truthy(meta[rt], "creates_entry")
    THEN Result(Response(200, ""), OneRecord(entry),
                [d EXCEPT ![routes[rt].data_set] = Append(d[routes[rt].data_set], entry)])
    ELSE Result(Response(200, "Successful post, no entries created"), NoContent, d)

\* a variant that takes the template from the seed file
PostTemplate_of_seed(rt, list) ==
    LET ds == routes[rt].data_set
        seed == Configs[cfg].seed
    IN IF ds \in DOMAIN seed /\ seed[ds] # <<>> THEN seed[ds][1] ELSE EmptyDict

\* server.py 169: template = self.data[data_set][0] if self.data[data_set] else {}
PostTemplate(rt, list) == IF list # <<>> THEN list[1] ELSE EmptyDict

\* add_post_route.handler, server.py 156-194; n numbers the uuid4() call
PostBody(rt, d, body, n) ==
    LET route == routes[rt] IN
    IF body.kind = "invalid" THEN Result(Response(400, "Invalid JSON body"), NoContent, d)
    ELSE IF Falsy(body) THEN Result(Response(400, "Request body is required"), NoContent, d)
    ELSE IF route.data_set \notin DOMAIN d THEN Raise("KeyError", d)
    ELSE LET list == d[route.data_set]
             template == PostTemplate(rt, list)
             missing_fields == {k \in DOMAIN template : k # "id" /\ ~In(k, body)}
         IN IF missing_fields # {}
            THEN Result(Response(400, "Missing required fields"), FieldNames(missing_fields), d)
            ELSE IF body.kind # "obj" THEN Raise("TypeError: body", d)
            ELSE LET b1 == AssignId(body.fields, n)
                     b2 == IF Truthy(meta[rt], "creates_created_at")
                           THEN Put(b1, "created_at", Now) ELSE b1
                     b3 == IF Truthy(meta[rt], "creates_updated_at")
                           THEN Put(b2, "updated_at", NoneVal) ELSE b2
                 IN StoreEntry(rt, d, b3)

\* server.py 179: whether the POST reaches the uuid4() call
PostDrawsUuid(rt, d, body) ==
    /\ body.kind = "obj" /\ ~Falsy(body)
    /\ routes[rt].data_set \in DOMAIN d
    /\ LET list == d[routes[rt].data_set]
           template == PostTemplate(rt, list)
       IN \A k \in DOMAIN template : k = "id" \/ In(k, body)

\* a variant that never finds the parameters missing
NoParameters_never(path_params, query_params) == FALSE

\* server.py 231-232, 313-314: `if not path_params and not query_params`
NoParameters(path_params, query_params) ==
    DOMAIN path_params = {} /\ DOMAIN query_params = {}

\* a variant without the check of a singular route
NotSingle_unchecked(metadata, found) == FALSE

\* server.py 246 (DELETE): a singular route that did not find exactly one record
NotSingle(metadata, found) == Truthy(metadata, "singular_response") /\ Len(found) # 1

\* a variant that removes the first matched record only
RemoveByIds_first_only(list, found) ==
    SelectSeq(list, LAMBDA item : Get(item, "id") # found[1].id)

\* server.py 253-257: the records whose id is not the id of a record of `found`
RemoveByIds(list, found) ==
    SelectSeq(list, LAMBDA item : Get(item, "id") \notin Ids(found))

\* add_delete_route.handler, server.py 231-263
DeleteBody(rt, d, path_params, query_params) ==
    LET route == routes[rt] IN
    IF NoParameters(path_params, query_params)
    THEN Result(Response(500, "DELETE route requires path or query parameters"), NoContent, d)
    ELSE IF route.data_set \notin DOMAIN d THEN Raise("KeyError", d)
    ELSE LET list == d[route.data_set]
             to_delete == filter_dict(list, Merge(path_params, query_params))
             singular == Truthy(meta[rt], "singular_response")
         IN IF to_delete = <<>>
            THEN Result(Response(404, "No matching entries found to delete"), NoContent, d)
            ELSE IF NotSingle(meta[rt], to_delete)
            THEN Result(Response(400, "entries found"), Count(Len(to_delete)), d)
            ELSE Result(Response(200, ""),
                        IF singular THEN OneRecord(to_delete[1]) ELSE RecordList(to_delete),
                        [d EXCEPT ![route.data_set] = RemoveByIds(list, to_delete)])

\* a variant that finds no field missing
MissingFields_none(item, fields) == {}

\* server.py 334-337: the fields of the stored record other than id that the body lacks
MissingFields(item, fields) == (DOMAIN item \ {"id"}) \ DOMAIN fields

\* a variant that lets an id of the body stand
UpdatedItem_body_id(item, fields) ==
    IF "id" \in DOMAIN fields THEN fields ELSE Put(fields, "id", Get(item, "id"))

\* server.py 347-350: the record cleared, filled from the body, its id put back
UpdatedItem(item, fields) == Put(fields, "id", Get(item, "id"))

\* a variant that takes the record out of the list and appends the new one
WriteInPlace_at_end(list, pos, updated) ==
    Append(SubSeq(list, 1, pos - 1) \o SubSeq(list, pos + 1, Len(list)), updated)

\* server.py 346-350: to_update_item is the dict object the list holds at pos, so that
\* clear(), update(body) and the id put back change the list at that position
WriteInPlace(list, pos, updated) == [list EXCEPT ![pos] = updated]

\* add_put_route.handler, server.py 300-354
PutBody(rt, d, body, path_params, query_params) ==
    LET route == routes[rt] IN
    IF body.kind = "invalid" THEN Result(Response(400, "Invalid JSON body"), NoContent, d)
    ELSE IF Falsy(body) THEN Result(Response(400, "Request body is required"), NoContent, d)
    ELSE IF NoParameters(path_params, query_params)
    THEN Result(Response(400, "PUT route requires path or query parameters"), NoContent, d)
    ELSE IF route.data_set \notin DOMAIN d THEN Raise("KeyError", d)
    ELSE LET list == d[route.data_set]
             criteria == Merge(path_params, query_params)
             to_update == filter_dict(list, criteria)
         IN IF to_update = <<>>
            THEN Result(Response(404, "No matching entry found to update"), NoContent, d)
            ELSE IF Len(to_update) # 1
            THEN Result(Response(400, "entries found"), Count(Len(to_update)), d)
            ELSE IF body.kind # "obj" THEN Raise("AttributeError: body", d)
            ELSE LET to_update_item == to_update[1]
                     missing_fields == MissingFields(to_update_item, body.fields)
                     updated == UpdatedItem(to_update_item, body.fields)
                     \* the matched dict object is changed in place, where it sits in the list
                     pos == CHOOSE n \in DOMAIN list :
                               /\ \A k \in DOMAIN criteria : str(Get(list[n], k)) = str(criteria[k])
                 IN IF missing_fields # {}
                    THEN Result(Response(400, "Missing fields in request body"), FieldNames(missing_fields), d)
                    ELSE Result(Response(200, ""), OneRecord(updated),
                                [d EXCEPT ![route.data_set] = WriteInPlace(list, pos, updated)])

\* a variant that consults the route flag before it checks the dataset
Preamble_flag_first(rt, d, flags) ==
    LET chk == check_route_failure_flag(routes[rt].method, routes[rt].endpoint, flags) IN
    IF chk.resp # None THEN chk
    ELSE IF routes[rt].data_set \notin DOMAIN d
         THEN [resp |-> Response(500, "dataset not found"), flags |-> flags]
         ELSE chk

\* The preamble of every handler before its chain (server.py 84-91, 144-151, 219-226,
\* 288-295): the dataset check, then the route flag.  `d` is self.data.
Preamble(rt, d, flags) ==
    IF routes[rt].data_set \notin DOMAIN d
    THEN [resp |-> Response(500, "dataset not found"), flags |-> flags]
    ELSE check_route_failure_flag(routes[rt].method, routes[rt].endpoint, flags)

\* ---------------------------------------------------------------- dataset store
\* `not unique_id`
FalsyValue(v) == v \in {NoneVal, <<"str", "">>, <<"int", "0">>}

\* whether <data_set>.json can be opened and parsed, and whether its top level is a list
Readable(data_set) == data_set \in DOMAIN Configs[cfg].seed
IsList(data_set) ==
    ~("not_a_list" \in DOMAIN Configs[cfg] /\ data_set \in Configs[cfg].not_a_list)

\* load_seed_data, server.py 435-446: the list in <data_set>.json; [] when the file
\* cannot be read or parsed or does not hold a list (`except Exception: return []`)
load_seed_data(data_set) ==
    IF Readable(data_set) /\ IsList(data_set) THEN Configs[cfg].seed[data_set] ELSE <<>>

\* isinstance(item, dict)
IsDict(item) == "not_an_object" \notin DOMAIN item

\* a variant without the check for an id seen before
SeedValid_no_duplicate_check(list) ==
    \A n \in DOMAIN list : IsDict(list[n]) /\ ~FalsyValue(Get(list[n], "id"))

\* ensure_dataset_loaded, server.py 475-487: every item is an object with a truthy id no
\* earlier item has
SeedValid(list) ==
    \A n \in DOMAIN list :
        /\ IsDict(list[n])
        /\ ~FalsyValue(Get(list[n], "id"))
        /\ \A m \in 1..(n - 1) : Get(list[m], "id") # Get(list[n], "id")

\* a variant that reads the seed again for a dataset that is loaded already
ensure_dataset_loaded_reloads(d, data_set) ==
    LET list == load_seed_data(data_set) IN
    IF SeedValid(list) THEN [raised |-> FALSE, data |-> Put(d, data_set, list)]
    ELSE [raised |-> TRUE, data |-> d]

\* ensure_dataset_loaded: self.data afterwards, and whether it raised ValueError
ensure_dataset_loaded(d, data_set) ==
    IF data_set \in DOMAIN d THEN [raised |-> FALSE, data |-> d]
    ELSE LET list == load_seed_data(data_set) IN
         IF SeedValid(list) THEN [raised |-> FALSE, data |-> Put(d, data_set, list)]
         ELSE [raised |-> TRUE, data |-> d]

\* parse_config, server.py 423-431: routes 1..n are registered and their datasets loaded
\* in route order, starting from self.data = d; a ValueError of ensure_dataset_loaded
\* ends the loop
RECURSIVE LoadRoutes(_, _)
LoadRoutes(d, n) ==
    IF n = 0 THEN [raised |-> FALSE, data |-> d]
    ELSE LET before == LoadRoutes(d, n - 1) IN
         IF before.raised THEN before
         ELSE ensure_dataset_loaded(before.data, routes[n].data_set)

\* list(self.data.keys()): the loaded names in the order they were inserted
RECURSIVE KeysInOrder(_, _)
KeysInOrder(d, n) ==
    IF n = 0 THEN <<>>
    ELSE LET before == KeysInOrder(d, n - 1)
             name == routes[n].data_set
         IN IF name \in DOMAIN d /\ \A m \in DOMAIN before : before[m] # name
            THEN Append(before, name) ELSE before

\* ---------------------------------------------------------------- state
\* A handler suspended at an await: pc "mw" (in run_middleware for unit `name`, number i
\* of the chain, awaiting mod.run with fail_next = inj in its metadata copy) or "json"
\* (awaiting request.json()).  History: trace lists the units that have returned to this
\* request, each with what came of it; ent says that the request was charged with a
\* setting of the unit's flag when it read the flag.
Suspended(pc, rt, hdr, i, name, inj, ent, trace) ==
    [pc |-> pc, rt |-> rt, hdr |-> hdr, i |-> i, name |-> name, inj |-> inj, ent |-> ent,
     trace |-> trace]
InFlight == BagToSet(reqs)
NoReset == [active |-> FALSE, keys |-> <<>>, names |-> <<>>, quiet |-> TRUE]
\* reset_datasets with loaded_keys = keys, its reloads still to come (none when no
\* dataset was loaded)
ResetOf(keys) ==
    IF keys = <<>> THEN NoReset
    ELSE [active |-> TRUE, keys |-> keys, names |-> keys, quiet |-> TRUE]
\* a handler runs: a reset in progress is no longer undisturbed
Disturbed(r) == IF r.active THEN [r EXCEPT !.quiet = FALSE] ELSE r
\* the record of a request that ended before its method body
EndedEarly(rt, resp, trace) ==
    [rt |-> rt, resp |-> resp, trace |-> trace, body |-> FALSE, content |-> NoContent]
\* the record of a request whose method body ran and gave `res`
EndedInBody(rt, res, trace) ==
    [rt |-> rt, resp |-> res.resp, trace |-> trace, body |-> TRUE, content |-> res.content]
NoLast == EndedEarly(0, None, <<>>)

\* ---------------------------------------------------------------- start
\* mod.validate_config(conf) of the bundled units: the required keys the configuration
\* lacks (auth_token.py 7-9, permissions_token.py 12-13; input_check.py returns None)
validate_config(name, conf) ==
    CASE name = "auth_token" -> {"accepted_token"} \ DOMAIN conf
      [] name = "permissions_token" -> {"accepted_tokens"} \ DOMAIN conf
      [] OTHER -> {}

\* load_middleware, server.py 448-466.  `loaded` counts per importable unit how often it
\* was imported and validated: a key already in self.middleware is skipped.  `errors` is
\* the local dict the method fills; the method has no return statement, so its caller
\* gets None (`returned`, the keys of what the caller sees).
load_middleware(loaded) ==
    [loaded |-> [m \in DOMAIN loaded |-> IF loaded[m] = 0 THEN 1 ELSE loaded[m]],
     errors |-> {key \in DOMAIN middleware_config :
                    IF key \in Units
                    THEN loaded[key] = 0 /\ validate_config(key, middleware_config[key]) # {}
                    ELSE TRUE},
     returned |-> {}]

\* parse_config, server.py 389-433, run with self.data = d: how it ends ("returned",
\* "exit" for sys.exit(1), "raised" for an exception that leaves it) and self.data and
\* the load counts afterwards
parse_config(d, loaded) ==
    IF "not_a_dict" \in DOMAIN Configs[cfg]
    THEN [ends |-> "exit", data |-> d, loaded |-> loaded]
    ELSE LET mw == load_middleware(loaded) IN
         IF mw.returned # {}
         THEN [ends |-> "exit", data |-> d, loaded |-> mw.loaded]
         ELSE LET out == LoadRoutes(d, Len(routes)) IN
              [ends |-> IF out.raised THEN "raised" ELSE "returned",
               data |-> out.data, loaded |-> mw.loaded]

NoData == [k \in {} |-> <<>>]

\* JsonServer.__init__, server.py 49-61
Init ==
    /\ cfg \in DOMAIN Configs
    /\ data = NoData
    /\ boot = [phase |-> "constructed", loaded |-> [m \in middleware |-> 0]]
    /\ meta = <<>>
    /\ fail_next = [k \in Keys |-> FALSE]
    /\ reqs = EmptyBag
    /\ reset = NoReset
    /\ nuuid = 0
    /\ last = NoLast
    /\ armed = [m \in middleware |-> FALSE]

\* ---------------------------------------------------------------- start sequence
\* server.parse_config() runs when server.py is imported (line 504) and again in main.py
\* (line 11); then main.py starts the server thread and the control panel.  sys.exit
\* and an exception that leaves parse_config both end the process.
ParseConfig ==
    /\ boot.phase \in {"constructed", "imported"}
    /\ LET out == parse_config(data, boot.loaded) IN
       /\ data' = out.data
       /\ boot' = [phase |-> CASE out.ends = "exit" -> "exited"
                              [] out.ends = "raised" -> "crashed"
                              [] boot.phase = "constructed" -> "imported"
                              [] OTHER -> "serving",
                   loaded |-> out.loaded]
       \* add_*_route (server.py 428-429): each handler holds its route's metadata; a
       \* request is answered by the handler registered first
       /\ meta' = IF out.ends # "exit" /\ boot.phase = "constructed"
                  THEN [rt \in RouteIds |-> routes[rt].metadata]
                  ELSE meta
    /\ UNCHANGED <<cfg, fail_next, reqs, reset, nuuid, last, armed>>

Serving == boot.phase = "serving"

\* ---------------------------------------------------------------- request handlers
\* The handler of request q (None: a request that just arrived) returns `resp`, or
\* suspends as `next`.
Leave(q) == IF q = None THEN reqs ELSE reqs (-) SetToBag({q})
Finish(q, rt, resp, trace) ==
    /\ reqs' = Leave(q)
    /\ last' = EndedEarly(rt, resp, trace)
FinishBody(q, rt, res, trace) ==
    /\ reqs' = Leave(q)
    /\ last' = EndedInBody(rt, res, trace)
Suspend(q, next) ==
    /\ reqs' = Leave(q) (+) SetToBag({next})
    /\ last' = last

\* what unit `name` returns to a request on route rt that read `flag` for it
UnitReturn(name, rt, hdr, flag) ==
    ModRun(name, hdr, middleware_config[name], InjectFailNext(meta[rt], flag))
\* whether it reports the flag consumed
Consumes(name, rt, hdr, flag) ==
    UnitReturn(name, rt, hdr, flag).pair /\ UnitReturn(name, rt, hdr, flag).clear

\* A DELETE handler between its reads of self.data[data_set] (server.py 240, 255) and
\* its assignment to self.data[data_set] (254): the response and its content are made, and
\* `list` is the list it is about to store.  No other handler runs here (there is no
\* await), but the control panel thread can.
Storing(rt, trace, res) ==
    [pc |-> "store", rt |-> rt, hdr |-> NoHeader, i |-> 0, name |-> "", inj |-> FALSE,
     ent |-> FALSE, trace |-> trace, resp |-> res.resp, content |-> res.content,
     list |-> res.data[routes[rt].data_set]]

\* a variant in which the event loop runs other handlers while one is about to store
LoopFree_always == TRUE

\* the event loop is free to run a handler: none is in the middle of its method body
LoopFree == \A q \in InFlight : q.pc # "store"

\* the method body of a GET or DELETE route, run without an await after the chain; a
\* DELETE that removes records has read the dataset and has yet to store the new list
RunBodyNow(q, rt, trace) ==
    \E path_params \in PathParams(rt), query_params \in QueryParams :
        LET res == IF routes[rt].method = "GET"
                   THEN GetBody(rt, data, path_params, query_params)
                   ELSE DeleteBody(rt, data, path_params, query_params)
        IN IF routes[rt].method = "DELETE" /\ res.resp.status = 200
           THEN /\ UNCHANGED <<data, nuuid>>
                /\ Suspend(q, Storing(rt, trace, res))
           ELSE /\ data' = res.data
                /\ nuuid' = nuuid
                /\ FinishBody(q, rt, res, trace)

\* The handler goes on with unit number i of its chain (`for middleware_name in
\* middleware`), or with the method body when the chain is exhausted, up to its next
\* await.  `flags` is self.fail_next as the handler has left it so far.
Continue(q, rt, hdr, i, trace, flags) ==
    LET route == routes[rt] IN
    IF i <= Len(route.middleware)
    THEN LET name == route.middleware[i] IN
         IF name \notin middleware
         THEN \* run_middleware, server.py 378-380: raise Exception("Middleware not found")
              /\ Finish(q, rt, Unhandled("Middleware not found"), trace)
              /\ UNCHANGED <<data, nuuid, armed, meta>>
         ELSE \* server.py 377-384: the flag is read into the metadata copy, then mod.run is awaited
              LET flag == flags[MiddlewareKey(name)]
                  charged == armed[name] /\ Consumes(name, rt, hdr, flag)
              IN /\ Suspend(q, Suspended("mw", rt, hdr, i, name, flag, charged, trace))
                 /\ armed' = IF charged THEN [armed EXCEPT ![name] = FALSE] ELSE armed
                 /\ meta' = [meta EXCEPT ![rt] = run_middleware_metadata(meta[rt], flag)]
                 /\ UNCHANGED <<data, nuuid>>
    ELSE IF route.method \in {"GET", "DELETE"}
         THEN RunBodyNow(q, rt, trace) /\ UNCHANGED <<armed, meta>>
         ELSE \* POST, PUT: await request.json()
              /\ Suspend(q, Suspended("json", rt, NoHeader, 0, "", FALSE, FALSE, trace))
              /\ UNCHANGED <<data, nuuid, armed, meta>>

\* the Authorization header is read by the units only
HeadersFor(rt) == IF routes[rt].middleware = <<>> THEN {NoHeader} ELSE Headers

\* A request arrives on route rt: the handler runs from its first line to its first await.
Begin(rt, hdr) ==
    /\ Serving /\ LoopFree
    /\ BagCardinality(reqs) < MaxInFlight
    /\ hdr \in HeadersFor(rt)
    /\ LET pre == Preamble(rt, data, fail_next) IN
       /\ fail_next' = pre.flags
       /\ IF pre.resp # None
          THEN /\ Finish(None, rt, pre.resp, <<>>)
               /\ UNCHANGED <<data, nuuid, armed, meta>>
          ELSE Continue(None, rt, hdr, 1, <<>>, pre.flags)
    /\ reset' = Disturbed(reset)
    /\ UNCHANGED <<cfg, boot>>

\* The awaited unit of request q returns: run_middleware ends (server.py 384-387) and
\* the handler goes on to its next await.
MwReturn(q) ==
    /\ q.pc = "mw" /\ LoopFree
    /\ LET ret == UnitReturn(q.name, q.rt, q.hdr, q.inj)
           out == run_middleware_return(q.name, ret, fail_next)
           outcome == IF out.raised THEN "raised"
                      ELSE IF out.resp # None THEN "response" ELSE "continue"
           trace == Append(q.trace, <<q.name, outcome>>)
       IN /\ fail_next' = out.flags
          /\ IF out.resp # None
             THEN /\ Finish(q, q.rt, out.resp, trace)
                  /\ UNCHANGED <<data, nuuid, armed, meta>>
             ELSE Continue(q, q.rt, q.hdr, q.i + 1, trace, out.flags)
    /\ reset' = Disturbed(reset)
    /\ UNCHANGED <<cfg, boot>>

\* request.json() of the POST or PUT request q returns (or raises): the method body runs.
JsonReturn(q) ==
    /\ q.pc = "json" /\ LoopFree
    /\ IF routes[q.rt].method = "POST"
       THEN \E body \in Bodies :
               /\ PostDrawsUuid(q.rt, data, body) => nuuid < MaxPosts
               /\ LET res == PostBody(q.rt, data, body, nuuid + 1) IN
                  /\ data' = res.data
                  /\ nuuid' = IF PostDrawsUuid(q.rt, data, body) THEN nuuid + 1 ELSE nuuid
                  /\ FinishBody(q, q.rt, res, q.trace)
       ELSE \E body \in Bodies, path_params \in PathParams(q.rt), query_params \in QueryParams :
               LET res == PutBody(q.rt, data, body, path_params, query_params) IN
               /\ data' = res.data
               /\ nuuid' = nuuid
               /\ FinishBody(q, q.rt, res, q.trace)
    /\ reset' = Disturbed(reset)
    /\ UNCHANGED <<cfg, boot, meta, fail_next, armed>>

\* The DELETE handler q stores its list (server.py 254, self.data[data_set] = [...]) and
\* returns its response.
DeleteStore(q) ==
    /\ q.pc = "store"
    /\ data' = Put(data, routes[q.rt].data_set, q.list)
    /\ FinishBody(q, q.rt, [resp |-> q.resp, content |-> q.content], q.trace)
    /\ reset' = Disturbed(reset)
    /\ UNCHANGED <<cfg, boot, meta, fail_next, nuuid, armed>>

\* ---------------------------------------------------------------- control panel
\* gui.fail_route_confirm_callback: server.fail_next[selected] = True
SetRouteFailure(rt) ==
    /\ Serving /\ ~reset.active
    /\ fail_next' = [fail_next EXCEPT ![KeyOf(rt)] = TRUE]
    /\ UNCHANGED <<cfg, boot, meta, data, reqs, reset, nuuid, last, armed>>

\* gui.fail_middleware_confirm_callback: server.fail_next[f"middleware:{name}"] = True
SetMiddlewareFailure(name) ==
    /\ Serving /\ ~reset.active
    /\ fail_next' = [fail_next EXCEPT ![MiddlewareKey(name)] = TRUE]
    /\ armed' = [armed EXCEPT ![name] = TRUE]
    /\ UNCHANGED <<cfg, boot, meta, data, reqs, reset, nuuid, last>>

\* a variant of the reset that also forgets the failure flags
ResetClear_drops_flags ==
    /\ Serving /\ ~reset.active
    /\ reset' = ResetOf(KeysInOrder(data, Len(routes)))
    /\ data' = [k \in {} |-> <<>>]
    /\ fail_next' = [k \in DOMAIN fail_next |-> FALSE]
    /\ UNCHANGED <<cfg, boot, meta, reqs, nuuid, last, armed>>

\* a variant of the reset without self.data.clear()
ResetClear_keeps_data ==
    /\ Serving /\ ~reset.active
    /\ reset' = ResetOf(KeysInOrder(data, Len(routes)))
    /\ UNCHANGED <<cfg, boot, meta, data, fail_next, reqs, nuuid, last, armed>>

\* reset_datasets, server.py 496-497: loaded_keys = list(self.data.keys()); self.data.clear()
ResetClear ==
    /\ Serving /\ ~reset.active
    /\ reset' = ResetOf(KeysInOrder(data, Len(routes)))
    /\ data' = [k \in {} |-> <<>>]
    /\ UNCHANGED <<cfg, boot, meta, fail_next, reqs, nuuid, last, armed>>

\* reset_datasets, server.py 498-499: the next key of loaded_keys is reloaded; a
\* ValueError of ensure_dataset_loaded ends the callback
ResetLoad ==
    /\ reset.active
    /\ LET out == ensure_dataset_loaded(data, Head(reset.keys)) IN
       /\ data' = out.data
       /\ reset' = IF out.raised \/ Len(reset.keys) = 1 THEN NoReset
                   ELSE [reset EXCEPT !.keys = Tail(reset.keys)]
    /\ UNCHANGED <<cfg, boot, meta, fail_next, reqs, nuuid, last, armed>>

Next ==
    \/ ParseConfig
    \/ \E rt \in RouteIds, hdr \in Headers : Begin(rt, hdr)
    \/ \E q \in InFlight : MwReturn(q)
    \/ \E q \in InFlight : JsonReturn(q)
    \/ \E q \in InFlight : DeleteStore(q)
    \/ \E rt \in RouteIds : SetRouteFailure(rt)
    \/ \E name \in middleware : SetMiddlewareFailure(name)
    \/ ResetClear
    \/ ResetLoad

Spec == Init /\ [][Next]_vars

\* ---------------------------------------------------------------- fairness
\* The event loop keeps resuming suspended handlers, and the control-panel thread finishes
\* a reset it has started.
Resumed == \E q \in InFlight : MwReturn(q) \/ JsonReturn(q) \/ DeleteStore(q)

Fairness ==
    /\ WF_vars(ResetLoad)
    /\ WF_vars(Resumed)

FairSpec == Spec /\ Fairness

\* ---------------------------------------------------------------- claims
AllKeys ==
    UNION { {RouteKey(Configs[c].routes[rt].method, Configs[c].routes[rt].endpoint) :
                rt \in DOMAIN Configs[c].routes} : c \in DOMAIN Configs }
    \cup {MiddlewareKey(m) : m \in Units}

SimulatedFailure == Response(500, "Simulated failure")
Loaded(rt) == routes[rt].data_set \in DOMAIN data
\* this step is a request on route rt that the route flag answers
RouteFailed(rt) ==
    /\ reqs' = reqs
    /\ last' = EndedEarly(rt, SimulatedFailure, <<>>)

\* C1: a set route flag stays idempotently true when set again; a request on a route whose
\* dataset is loaded is answered 500 "Simulated failure" exactly when the route's flag is
\* set, and leaves the flag false, so the next request is not failed by it.
C1_RouteFlagFailsOneRequest ==
    [][\A rt \in RouteIds :
          /\ SetRouteFailure(rt) => fail_next'[KeyOf(rt)]
          /\ \A hdr \in Headers :
                (Begin(rt, hdr) /\ Loaded(rt)) =>
                    /\ fail_next[KeyOf(rt)] <=> RouteFailed(rt)
                    /\ ~fail_next'[KeyOf(rt)]]_vars

\* a request was failed by its route flag, and the flag is false again
C1_Witness ==
    /\ last.resp = SimulatedFailure
    /\ ~fail_next[KeyOf(last.rt)]
    /\ Loaded(last.rt)

AllRouteIds == UNION {DOMAIN Configs[c].routes : c \in DOMAIN Configs}
FlagSet(k) == k \in DOMAIN fail_next /\ fail_next[k]
RouteFlagSet(rt) == rt \in RouteIds /\ fail_next[KeyOf(rt)]
\* a request on route rt is served: it arrives and finds the route's dataset loaded
Served(rt) == rt \in RouteIds /\ Loaded(rt) /\ \E hdr \in Headers : Begin(rt, hdr)
\* a request is handled by unit `name`: the unit's run returns to run_middleware
Handled(name) == \E q \in InFlight : q.name = name /\ MwReturn(q)

\* C2: with handlers always resumed, a route flag that is set becomes false again when
\* requests keep being served on its route, and the flag of a bundled unit that is set
\* becomes false again when requests keep being handled by that unit.
C2_FlagEventuallyConsumed ==
    /\ \A rt \in AllRouteIds :
          []<><<Served(rt)>>_vars => [](RouteFlagSet(rt) => <>(~RouteFlagSet(rt)))
    /\ \A name \in Units :
          []<><<Handled(name)>>_vars =>
              [](FlagSet(MiddlewareKey(name)) => <>(~FlagSet(MiddlewareKey(name))))

C4_ClearedWhenUnitReportsConsumption ==
    [][\A q \in InFlight :
          MwReturn(q) =>
              /\ fail_next'[MiddlewareKey(q.name)] =
                    IF Consumes(q.name, q.rt, q.hdr, q.inj) THEN FALSE
                    ELSE fail_next[MiddlewareKey(q.name)]
              /\ \A k \in DOMAIN fail_next \ {MiddlewareKey(q.name)} :
                    fail_next'[k] = fail_next[k]]_vars

\* permissions_token answered a request 401 without reporting consumption, and its flag
\* is still set
C4_Witness ==
    /\ last.trace # <<>>
    /\ last.trace[Len(last.trace)] = <<"permissions_token", "response">>
    /\ last.resp = Response(401, "Unauthorized")
    /\ fail_next[MiddlewareKey("permissions_token")]

\* the step of key k's check that consumes the flag: the route flag's check of a request
\* on that route, or the return of the unit that reports it consumed
ConsumedBy(k) ==
    \/ \E rt \in RouteIds, hdr \in Headers :
          KeyOf(rt) = k /\ Loaded(rt) /\ Begin(rt, hdr) /\ RouteFailed(rt)
    \/ \E q \in InFlight :
          /\ MiddlewareKey(q.name) = k
          /\ MwReturn(q)
          /\ Consumes(q.name, q.rt, q.hdr, q.inj)

\* C5: a flag that is set stays set through every step that is not the consuming step of
\* its own check: requests on other routes, requests that end before the check (dataset
\* not found, route failure, a response of an earlier unit) and the dataset reset.
C5_FlagStickyUntilConsumed ==
    [][\A k \in DOMAIN fail_next :
          (fail_next[k] /\ ~fail_next'[k]) => ConsumedBy(k)]_vars

\* a request ended with the response of the first unit of a chain of two while the flag
\* of the second unit was set, and the flag is still set
C5_Witness ==
    /\ last.rt \in RouteIds
    /\ Len(routes[last.rt].middleware) = 2
    /\ last.trace = << <<routes[last.rt].middleware[1], "response">> >>
    /\ fail_next[MiddlewareKey(routes[last.rt].middleware[2])]

\* C6: a request on a route whose flag is set (dataset loaded) is answered 500 at once:
\* no unit is invoked for it, no middleware flag changes and the data is unchanged.
C6_RouteFlagBeforeMiddleware ==
    [][\A rt \in RouteIds, hdr \in Headers :
          (Begin(rt, hdr) /\ Loaded(rt) /\ fail_next[KeyOf(rt)]) =>
              /\ RouteFailed(rt)
              /\ data' = data
              /\ \A m \in middleware :
                    fail_next'[MiddlewareKey(m)] = fail_next[MiddlewareKey(m)]]_vars

\* a request on a route with a chain was failed by the route flag while the flag of the
\* chain's first unit was set
C6_Witness ==
    /\ last.rt \in RouteIds
    /\ last.resp = SimulatedFailure
    /\ last.trace = <<>>
    /\ routes[last.rt].middleware # <<>>
    /\ FlagSet(MiddlewareKey(routes[last.rt].middleware[1]))

\* C7: the first unit of the chain that returns a response ends the request with that
\* response: no later unit is invoked, the method body does not run, the data is unchanged.
C7_FirstResponseEndsRequest ==
    [][\A q \in InFlight :
          (MwReturn(q) /\ UnitReturn(q.name, q.rt, q.hdr, q.inj).resp # None) =>
              /\ reqs' = reqs (-) SetToBag({q})
              /\ last'.rt = q.rt
              /\ last'.resp = UnitReturn(q.name, q.rt, q.hdr, q.inj).resp
              /\ ~last'.body
              /\ data' = data]_vars

\* C8: no invocation of a bundled unit through run_middleware ends the request with an
\* unhandled exception.
C8_NoUnhandledExceptionFromUnit ==
    \A n \in DOMAIN last.trace : last.trace[n][2] # "raised"

DatasetNotFound == Response(500, "dataset not found")
\* the units of request record l ran in the chain's order, each after the one before it
\* had returned "continue"
InChainOrder(l) ==
    /\ Len(l.trace) <= Len(routes[l.rt].middleware)
    /\ \A n \in DOMAIN l.trace :
          /\ l.trace[n][1] = routes[l.rt].middleware[n]
          /\ n < Len(l.trace) => l.trace[n][2] = "continue"
ChainPassed(l) ==
    /\ Len(l.trace) = Len(routes[l.rt].middleware)
    /\ \A n \in DOMAIN l.trace : l.trace[n][2] = "continue"

\* C9: a handler checks the dataset, then the route flag, then runs the chain in order,
\* then the method body: a request answered "dataset not found" leaves the flags as they
\* were, the route flag answers before any unit, and the body runs only after every unit
\* of the chain returned "continue".
C9_HandlerStepOrder ==
    [][/\ \A rt \in RouteIds, hdr \in Headers :
             Begin(rt, hdr) =>
                 IF ~Loaded(rt)
                 THEN /\ fail_next' = fail_next
                      /\ reqs' = reqs
                      /\ last' = EndedEarly(rt, DatasetNotFound, <<>>)
                 ELSE fail_next[KeyOf(rt)] => RouteFailed(rt)
       /\ last'.rt \in RouteIds =>
             /\ InChainOrder(last')
             /\ last'.body => ChainPassed(last')
             /\ last'.resp \in {DatasetNotFound, SimulatedFailure} =>
                   (last'.trace = <<>> /\ ~last'.body)
       /\ \A q \in BagToSet(reqs') : q.pc = "mw" =>
             /\ q.name = routes[q.rt].middleware[q.i]
             /\ Len(q.trace) = q.i - 1
             /\ \A n \in DOMAIN q.trace :
                   q.trace[n] = <<routes[q.rt].middleware[n], "continue">>]_vars

\* a request was answered "dataset not found" while its route's flag was set, and the
\* flag is still set
C9_Witness ==
    /\ last.rt \in RouteIds
    /\ last.resp = DatasetNotFound
    /\ fail_next[KeyOf(last.rt)]

\* the method body of a route with a chain ran after the chain's units returned "continue"
C9_BodyAfterChain ==
    /\ last.rt \in RouteIds
    /\ last.body
    /\ last.trace # <<>>

\* C10: in every loaded dataset every record has an id that is not empty, and no two
\* records share an id.
C10_IdsUniqueAndNonEmpty ==
    \A ds \in DOMAIN data :
        \A n \in DOMAIN data[ds] :
            /\ "id" \in DOMAIN data[ds][n]
            /\ ~FalsyValue(data[ds][n].id)
            /\ \A m \in DOMAIN data[ds] : m # n => data[ds][m].id # data[ds][n].id

\* a POST that supplied the id of a seed record was stored under a generated id, next to
\* that seed record
C10_Witness ==
    /\ "items" \in DOMAIN data
    /\ \E n, m \in DOMAIN data["items"] :
          /\ data["items"][n] = [id |-> uuid4(1), name |-> StrA]
          /\ data["items"][m].id = Str2

\* the seed content of dataset ds: the list in the file <ds>.json
SeedOf(ds) == Configs[cfg].seed[ds]
Names(keys) == {keys[n] : n \in DOMAIN keys}
\* this step ends a reset during which no handler has run
QuietResetEnds == ResetLoad /\ ~reset'.active /\ reset.quiet

\* C11: when reset_datasets ends and no handler ran during it, the loaded names are those
\* that were loaded when it began, and every dataset that has a seed list is that list,
\* record for record.
C11_ResetRestoresSeed ==
    [][QuietResetEnds =>
          /\ DOMAIN data' = Names(reset.names)
          /\ \A ds \in DOMAIN data' :
                (Readable(ds) /\ IsList(ds)) => data'[ds] = SeedOf(ds)]_vars

\* a DELETE removed records, and after it a reset gave the dataset its seed content again
C11_Witness ==
    /\ last.rt \in RouteIds
    /\ routes[last.rt].method = "DELETE"
    /\ last.resp.status = 200
    /\ ~reset.active
    /\ reqs = EmptyBag
    /\ DOMAIN data = DOMAIN Configs[cfg].seed
    /\ \A ds \in DOMAIN data : data[ds] = SeedOf(ds)

\* ---- the method bodies, on every dataset the server can hold and every request input
\* the positions of the records of `list` that match `criteria` loosely: for every
\* key, the texts of the record's value and of the criterion are the same
Matches(list, criteria) ==
    {n \in DOMAIN list :
        \A k \in DOMAIN criteria : str(Get(list[n], k)) = str(criteria[k])}
\* the i-th smallest position of the set S
Nth(S, i) == CHOOSE x \in S : Cardinality({y \in S : y < x}) = i - 1
\* the records of `list` at the positions S, in the order of the list
RecordsAt(list, S) == [i \in 1..Cardinality(S) |-> list[Nth(S, i)]]
RoutesOf(method) == {rt \in RouteIds : routes[rt].method = method /\ Loaded(rt)}
Singular(rt) == Truthy(routes[rt].metadata, "singular_response")
DataOf(rt) == data[routes[rt].data_set]

\* the content c is the content `expected`
ContentIs(c, expected) == c.kind = expected.kind /\ c.v = expected.v

\* what C12 says of the answer `res` to a GET with the merged parameters `criteria`
GetAnswerByCount(rt, criteria, res) ==
    LET S == Matches(DataOf(rt), criteria)
        n == Cardinality(S)
    IN /\ res.data = data
       /\ n = 0 => res.resp.status = 404
       /\ (Singular(rt) /\ n = 1) =>
             (res.resp.status = 200 /\ ContentIs(res.content, OneRecord(DataOf(rt)[Nth(S, 1)])))
       /\ (Singular(rt) /\ n > 1) =>
             (res.resp.status = 400 /\ ContentIs(res.content, Count(n)))
       /\ (~Singular(rt) /\ n >= 1) =>
             (res.resp.status = 200 /\ ContentIs(res.content, RecordList(RecordsAt(DataOf(rt), S))))

\* C12: a GET that passes the preamble answers by the number n of records matching the
\* merged path and query parameters: 404 for n = 0; on a singular route 200 with the one
\* record for n = 1 and 400 reporting n for n > 1; otherwise 200 with all the matching
\* records in dataset order.  The dataset is not changed.
C12_GetAnswersByMatchCount ==
    \A rt \in RoutesOf("GET") :
        \A path_params \in PathParams(rt), query_params \in QueryParams :
            GetAnswerByCount(rt, Merge(path_params, query_params),
                             GetBody(rt, data, path_params, query_params))

\* a GET on a singular route found two records and answered 400 reporting 2
C12_Witness ==
    /\ last.rt \in RoutesOf("GET")
    /\ Singular(last.rt)
    /\ last.body
    /\ last.resp.status = 400
    /\ ContentIs(last.content, Count(2))

\* the parameters collide: a key of both, with different values
Collide(path_params, query_params) ==
    \E k \in DOMAIN path_params \cap DOMAIN query_params : path_params[k] # query_params[k]
\* the criteria in which the path parameter's value stands for a key of both
PathFirst(path_params, query_params) == Merge(query_params, path_params)

\* the request on route rt ends in this step
Ended(rt) ==
    \/ \E hdr \in Headers : Begin(rt, hdr) /\ reqs' = reqs
    \/ \E q \in InFlight :
          /\ q.rt = rt
          /\ MwReturn(q) \/ JsonReturn(q) \/ DeleteStore(q)
          /\ reqs' = reqs (-) SetToBag({q})
\* the request on route rt ends in this step with the answer `res` of its method body
AnsweredWith(rt, res) ==
    /\ last'.body /\ last'.rt = rt
    /\ last'.resp = res.resp
    /\ ContentIs(last'.content, res.content)
    /\ data' = res.data
    /\ Ended(rt)
\* the method body of route rt on the dataset store d
BodyOf(rt, d, body, path_params, query_params) ==
    CASE routes[rt].method = "GET" -> GetBody(rt, d, path_params, query_params)
      [] routes[rt].method = "DELETE" -> DeleteBody(rt, d, path_params, query_params)
      [] routes[rt].method = "PUT" -> PutBody(rt, d, body, path_params, query_params)
      [] routes[rt].method = "POST" -> PostBody(rt, d, body, nuuid + 1)
\* the bodies a request on route rt can carry, as far as its method body reads them
BodiesOf(rt) == IF routes[rt].method \in {"POST", "PUT"} THEN Bodies ELSE {Obj(EmptyDict)}

\* C13: when a path parameter and a query parameter collide, a GET, DELETE or PUT is
\* answered as it is for the criteria with the path parameter's value.
C13_PathParamWinsCollision ==
    [][\A rt \in RouteIds :
          \A path_params \in PathParams(rt), query_params \in QueryParams,
             body \in BodiesOf(rt) :
              ( /\ routes[rt].method \in {"GET", "DELETE", "PUT"}
                /\ Collide(path_params, query_params)
                /\ AnsweredWith(rt, BodyOf(rt, data, body, path_params, query_params)) )
              => AnsweredWith(rt, BodyOf(rt, data, body,
                                         PathFirst(path_params, query_params), EmptyDict))]_vars

\* the template of route rt's dataset: the fields of its first record other than id
Template(rt) == IF DataOf(rt) = <<>> THEN {} ELSE DOMAIN DataOf(rt)[1] \ {"id"}
PostAnswer(rt, body) == PostBody(rt, data, body, nuuid + 1)

\* C14: a POST with a JSON object body, the empty object included, that lacks fields of
\* the template is answered 400 listing exactly the template fields the body lacks, and
\* the dataset is not changed.
C14_MissingTemplateFieldsListed ==
    [][\A rt \in RouteIds, body \in Bodies :
          ( /\ routes[rt].method = "POST" /\ Loaded(rt)
            /\ body.kind = "obj"
            /\ Template(rt) \ DOMAIN body.fields # {}
            /\ AnsweredWith(rt, PostAnswer(rt, body)) )
          => /\ last'.resp.status = 400
             /\ ContentIs(last'.content, FieldNames(Template(rt) \ DOMAIN body.fields))
             /\ data' = data]_vars

\* C15: a POST whose body is not a parseable JSON object is answered 400, the dataset is
\* not changed, and the request does not end in an unhandled exception.
C15_NonObjectBodyRejected ==
    [][\A rt \in RouteIds, body \in Bodies :
          ( /\ routes[rt].method = "POST" /\ Loaded(rt)
            /\ body.kind # "obj"
            /\ AnsweredWith(rt, PostAnswer(rt, body)) )
          => /\ last'.resp.status = 400
             /\ last'.resp.err \notin Exceptions
             /\ data' = data]_vars

\* the object body passes the validation of POST: not empty, no template field lacking
PassesValidation(rt, body) ==
    /\ body.kind = "obj" /\ ~Falsy(body)
    /\ Template(rt) \ DOMAIN body.fields = {}
\* the record of body `fields` under the identifier id
WithId(fields, id) == [k \in DOMAIN fields \cup {"id"} |-> IF k = "id" THEN id ELSE fields[k]]
CreatesEntry(rt) == Truthy(routes[rt].metadata, "creates_entry")
\* every dataset but that of route rt is in d what it is in the store
OthersKept(rt, d) ==
    /\ DOMAIN d = DOMAIN data
    /\ \A ds \in DOMAIN data \ {routes[rt].data_set} : d[ds] = data[ds]

C16_Stored ==
    /\ last.rt \in RoutesOf("POST")
    /\ CreatesEntry(last.rt)
    /\ last.resp.status = 200
    /\ last.content.kind = "record"
    /\ DataOf(last.rt) # <<>>
    /\ DataOf(last.rt)[Len(DataOf(last.rt))] = last.content.v

\* the requests a PUT body decides by match count: an object body that is not empty, and
\* at least one parameter
PutInputs(rt) ==
    {inp \in [body : {b \in Bodies : b.kind = "obj" /\ ~Falsy(b)},
              path_params : PathParams(rt), query_params : QueryParams] :
        DOMAIN inp.path_params \cup DOMAIN inp.query_params # {}}
PutAnswer(rt, inp) == PutBody(rt, data, inp.body, inp.path_params, inp.query_params)
PutMatches(rt, inp) == Matches(DataOf(rt), Merge(inp.path_params, inp.query_params))
\* the fields of the record at position p, other than id, that the body lacks
Lacking(rt, p, inp) == (DOMAIN DataOf(rt)[p] \ {"id"}) \ DOMAIN inp.body.fields

\* C17: a PUT with a non-empty object body and parameters answers by the number n of
\* matching records: 404 for n = 0, 400 reporting n for n >= 2, and for n = 1 with no
\* field lacking 200, after which the matched record has exactly the body's fields with
\* its own former id (an id of the body is ignored) and nothing else has changed.
C17_PutAnswersByMatchCount ==
    \A rt \in RoutesOf("PUT") :
        \A inp \in PutInputs(rt) :
            LET S == PutMatches(rt, inp)
                n == Cardinality(S)
                res == PutAnswer(rt, inp)
            IN /\ n = 0 => (res.resp.status = 404 /\ res.data = data)
               /\ n >= 2 =>
                     (res.resp.status = 400 /\ ContentIs(res.content, Count(n))
                        /\ res.data = data)
               /\ (n = 1 /\ Lacking(rt, Nth(S, 1), inp) = {}) =>
                     LET p == Nth(S, 1)
                         new == WithId(inp.body.fields, DataOf(rt)[p].id)
                     IN /\ res.resp.status = 200
                        /\ ContentIs(res.content, OneRecord(new))
                        /\ OthersKept(rt, res.data)
                        /\ res.data[routes[rt].data_set] = [DataOf(rt) EXCEPT ![p] = new]

\* a PUT whose body carried the id "2" rewrote a record that a POST had created: the
\* record kept its generated id
C17_Witness ==
    /\ last.rt \in RoutesOf("PUT")
    /\ last.resp.status = 200
    /\ ContentIs(last.content, OneRecord([id |-> uuid4(1), name |-> StrA]))
    /\ \E p \in DOMAIN DataOf(last.rt) : DataOf(last.rt)[p] = [id |-> uuid4(1), name |-> StrA]

\* a PUT that matched two records was answered 400 reporting 2
C17_TwoMatches ==
    /\ last.rt \in RoutesOf("PUT")
    /\ last.resp.status = 400
    /\ ContentIs(last.content, Count(2))

\* C18: a PUT that matches exactly one record and whose body lacks a field of that
\* record other than id is answered 400 listing the lacking fields, and the record and
\* the dataset are not changed.
C18_PutMissingFieldsRejected ==
    \A rt \in RoutesOf("PUT") :
        \A inp \in PutInputs(rt) :
            LET S == PutMatches(rt, inp)
                res == PutAnswer(rt, inp)
            IN (Cardinality(S) = 1 /\ Lacking(rt, Nth(S, 1), inp) # {}) =>
                  /\ res.resp.status = 400
                  /\ ContentIs(res.content, FieldNames(Lacking(rt, Nth(S, 1), inp)))
                  /\ res.data = data

\* a PUT was answered 400 listing name as the lacking field
C18_Witness ==
    /\ last.rt \in RoutesOf("PUT")
    /\ last.resp = Response(400, "Missing fields in request body")
    /\ ContentIs(last.content, FieldNames({"name"}))

\* the requests a DELETE body decides by match count: at least one parameter
DeleteInputs(rt) ==
    {inp \in [path_params : PathParams(rt), query_params : QueryParams] :
        DOMAIN inp.path_params \cup DOMAIN inp.query_params # {}}
DeleteAnswer(rt, inp) == DeleteBody(rt, data, inp.path_params, inp.query_params)
DeleteMatches(rt, inp) == Matches(DataOf(rt), Merge(inp.path_params, inp.query_params))
\* in d the dataset of route rt is what it is in the store without the records at the
\* positions S, the others in their order; the other datasets are unchanged
RemovedAt(rt, d, S) ==
    /\ OthersKept(rt, d)
    /\ d[routes[rt].data_set] = RecordsAt(DataOf(rt), DOMAIN DataOf(rt) \ S)

\* C19: on a singular route a DELETE that matches n >= 2 records is answered 400
\* reporting n and the dataset is not changed; a DELETE that matches exactly one record
\* removes that record and is answered 200 with the record itself, not a list.
C19_SingularDelete ==
    \A rt \in RoutesOf("DELETE") :
        Singular(rt) =>
            \A inp \in DeleteInputs(rt) :
                LET S == DeleteMatches(rt, inp)
                    n == Cardinality(S)
                    res == DeleteAnswer(rt, inp)
                IN /\ n >= 2 =>
                         (res.resp.status = 400 /\ ContentIs(res.content, Count(n))
                            /\ res.data = data)
                   /\ n = 1 =>
                         /\ res.resp.status = 200
                         /\ ContentIs(res.content, OneRecord(DataOf(rt)[Nth(S, 1)]))
                         /\ RemovedAt(rt, res.data, S)

\* a DELETE on a singular route matched two records and was answered 400 reporting 2,
\* and the dataset still is its seed
C19_Witness ==
    /\ last.rt \in RoutesOf("DELETE")
    /\ Singular(last.rt)
    /\ last.resp.status = 400
    /\ ContentIs(last.content, Count(2))
    /\ DataOf(last.rt) = SeedOf(routes[last.rt].data_set)

\* a DELETE on a singular route removed the one record it matched and returned it
C19_Removed ==
    /\ last.rt \in RoutesOf("DELETE")
    /\ Singular(last.rt)
    /\ last.resp.status = 200
    /\ last.content.kind = "record"
    /\ Len(DataOf(last.rt)) = 1
    /\ DataOf(last.rt)[1] # last.content.v

\* C20: on a route without singular_response a DELETE that matches at least one record
\* is answered 200 with the list of the matched records, and afterwards the dataset is
\* the former dataset without them, the other records in their former order.
C20_DeleteRemovesMatched ==
    \A rt \in RoutesOf("DELETE") :
        ~Singular(rt) =>
            \A inp \in DeleteInputs(rt) :
                LET S == DeleteMatches(rt, inp)
                    res == DeleteAnswer(rt, inp)
                IN S # {} =>
                      /\ res.resp.status = 200
                      /\ ContentIs(res.content, RecordList(RecordsAt(DataOf(rt), S)))
                      /\ RemovedAt(rt, res.data, S)

\* a DELETE removed the two seed records and left the record a POST had created
C20_Witness ==
    /\ last.rt \in RoutesOf("DELETE")
    /\ ~Singular(last.rt)
    /\ last.resp.status = 200
    /\ ContentIs(last.content, RecordList(ItemsSeed))
    /\ DataOf(last.rt) = << [id |-> uuid4(1), name |-> StrB] >>


\* ---- requests without parameters
\* the routes of `method` whose endpoint has no path parameter
PathLess(method) == {rt \in RoutesOf(method) : routes[rt].pathkeys = {}}
NonEmptyObjects == {b \in Bodies : b.kind = "obj" /\ ~Falsy(b)}

\* C21: a request without path and without query parameters is answered 500 by a DELETE
\* route and 400 by a PUT route (the PUT with a non-empty object body), and the dataset
\* is not changed.
C21_NoParametersRejected ==
    /\ \A rt \in PathLess("DELETE") :
          LET res == DeleteBody(rt, data, EmptyDict, EmptyDict) IN
          res.resp.status = 500 /\ res.data = data
    /\ \A rt \in PathLess("PUT") :
          \A body \in NonEmptyObjects :
              LET res == PutBody(rt, data, body, EmptyDict, EmptyDict) IN
              res.resp.status = 400 /\ res.data = data

\* a DELETE without parameters was answered 500 while the dataset held records
C21_Witness ==
    /\ last.rt \in PathLess("DELETE")
    /\ last.body
    /\ last.resp = Response(500, "DELETE route requires path or query parameters")
    /\ DataOf(last.rt) # <<>>

\* ---- the filters
\* the values, records and criteria the filters are tried on
FilterValues == {Int1, Str1, StrA, NoneVal, <<"str", "None">>}
FilterKeys == {"id", "name"}
FilterDicts == UNION {[K -> FilterValues] : K \in SUBSET FilterKeys}
\* the text of R's value under k: str(R[k]), and "None" when R has no key k
TextAt(R, k) == IF k \in DOMAIN R THEN R[k][2] ELSE "None"
LooseMatch(R, C) == \A k \in DOMAIN C : TextAt(R, k) = C[k][2]

\* criteria as a request gives them: every value a text
TextCriteria == {C \in FilterDicts : \A k \in DOMAIN C : C[k][1] = "str"}
\* What a filter does to given records and criteria does not depend on the state of the
\* server: that part of a statement is evaluated in the states before the start.
Constructed == boot.phase = "constructed"

\* C22: filter_dict returns a record R for criteria C exactly when, for every key k of
\* C, the text of R's value under k ("None" when R has no key k) is the text of C[k]; on
\* a list it returns the matching records in their order.
C22_FilterDictComparesTexts ==
    /\ Constructed =>
          \A R \in FilterDicts, C \in FilterDicts :
              (filter_dict(<<R>>, C) = <<R>>) <=> LooseMatch(R, C)
    /\ \A ds \in DOMAIN data, C \in TextCriteria :
          filter_dict(data[ds], C) =
              RecordsAt(data[ds], {n \in DOMAIN data[ds] : LooseMatch(data[ds][n], C)})

\* a GET with the path parameter id = "1" (text) was answered with the record whose id
\* is the integer 1
C22_Witness ==
    /\ last.rt \in RoutesOf("GET")
    /\ ~Singular(last.rt)
    /\ last.resp.status = 200
    /\ ContentIs(last.content, RecordList(<< [id |-> Int1, name |-> StrA] >>))
    /\ filter_dict(DataOf(last.rt), [id |-> Str1]) = << [id |-> Int1, name |-> StrA] >>

StrictValues == {Int1, Float1, BoolTrue, Str1, NoneVal}
StrictDicts == UNION {[K -> StrictValues] : K \in SUBSET FilterKeys}
\* the record has every key of the criteria, with the criterion's value and type
ExactMatch(R, C) == \A k \in DOMAIN C : k \in DOMAIN R /\ R[k] = C[k]

\* C23: strict_filter_dict returns a record exactly when, for every criterion key, the
\* record has the key and its value is the criterion's in value and type; a record that
\* lacks a criterion key never matches, whatever the criterion's value (null included).
C23_StrictFilterNeedsKeyAndType ==
    Constructed =>
        \A R \in StrictDicts, C \in StrictDicts :
            (strict_filter_dict(<<R>>, C) = <<R>>) <=> ExactMatch(R, C)

\* ---- the start
\* the keys of the middleware mapping for which the first load_middleware records an error
MiddlewareErrors == load_middleware([m \in middleware |-> 0]).errors
\* parse_config has registered its routes
RoutesRegistered == boot.phase \in {"imported", "serving"} /\ routes # <<>>
\* a request has been accepted or answered
RequestServed == reqs # EmptyBag \/ last # NoLast

\* C24: when load_middleware finds an error for a unit (validate_config reports errors,
\* or the unit cannot be imported), parse_config aborts the start: no route is
\* registered and no request is served.
C24_MiddlewareErrorsAbortStart ==
    MiddlewareErrors # {} => (~RoutesRegistered /\ ~Serving /\ ~RequestServed)

\* C25: every name in the chain of a registered route is a unit of self.middleware, and
\* no request ends because run_middleware did not find a unit.
C25_ChainNamesResolveAtStart ==
    /\ RoutesRegistered =>
          \A rt \in RouteIds :
              \A n \in DOMAIN routes[rt].middleware : routes[rt].middleware[n] \in middleware
    /\ last.resp # Unhandled("Middleware not found")

\* parse_config has run and the process goes on
StartWentOn == boot.phase \in {"imported", "serving"}

\* C26: a route table with a malformed entry ends the start: the process does not go on
\* after parse_config, and the server never serves with an empty or partial route table.
C26_MalformedRouteEndsStart ==
    ValidationError => ~StartWentOn

\* the seed file of ds can be read and parsed and holds a list
HasSeedList(ds) == Readable(ds) /\ IsList(ds)

\* C27: a dataset whose seed file cannot be read or parsed, or does not hold a list, is
\* never stored (not as an empty dataset either), and no request is served against it.
C27_UnreadableSeedNeverStored ==
    /\ \A ds \in DOMAIN data : HasSeedList(ds)
    /\ last.body => HasSeedList(Configs[cfg].routes[last.rt].data_set)

\* a seed list with a bad record: an item that is not an object, a record without id or
\* with a null or empty id, or two records of one id
BadRecordAt(list, n) ==
    \/ "not_an_object" \in DOMAIN list[n]
    \/ "id" \notin DOMAIN list[n]
    \/ list[n].id \in {NoneVal, <<"str", "">>}
    \/ \E m \in DOMAIN list : m # n /\ "id" \in DOMAIN list[m] /\ list[m].id = list[n].id
BadSeed(ds) == HasSeedList(ds) /\ \E n \in DOMAIN SeedOf(ds) : BadRecordAt(SeedOf(ds), n)

\* C28: for a seed list with a bad record ensure_dataset_loaded raises and stores
\* nothing: the dataset is never in self.data.
C28_BadSeedRaisesWithoutStoring ==
    \A ds \in DOMAIN Configs[cfg].seed :
        BadSeed(ds) =>
            /\ ds \notin DOMAIN data
            /\ ensure_dataset_loaded(data, ds).raised
            /\ ensure_dataset_loaded(data, ds).data = data

\* parse_config loaded the dataset users, then ensure_dataset_loaded raised for the seed
\* of items, which has a record without id: the start ended with users stored, items not
C28_Witness ==
    /\ boot.phase = "crashed"
    /\ DOMAIN data = {"users"}
    /\ BadSeed("items")

\* C29: however often parse_config runs, a unit is imported and validated at most once;
\* and a further parse_config leaves every loaded dataset as it is, whatever the requests
\* have made of it, and loads no unit again.
C29_SecondParseConfigKeepsState ==
    /\ \A m \in DOMAIN boot.loaded : boot.loaded[m] <= 1
    /\ StartWentOn =>
          LET again == parse_config(data, boot.loaded) IN
          /\ again.loaded = boot.loaded
          /\ \A ds \in DOMAIN data : again.data[ds] = data[ds]

\* parse_config has run twice, a unit was loaded once, and a DELETE has since removed
\* records of a dataset
C29_Witness ==
    /\ Serving
    /\ \E m \in DOMAIN boot.loaded : boot.loaded[m] = 1
    /\ last.rt \in RoutesOf("DELETE")
    /\ last.resp.status = 200
    /\ DataOf(last.rt) # SeedOf(routes[last.rt].data_set)

\* ---- the responses
\* the request that ended last was answered by a unit of its chain
AnsweredByUnit ==
    /\ last.trace # <<>>
    /\ last.trace[Len(last.trace)][2] = "response"
    /\ ~last.body

\* C30: a request that has ended has a status among 200, 400, 401, 403, 404, 500; a
\* response other than 200 is a JSON body with an error field (not an exception that
\* left the handler); and 401 and 403 come from middleware units only.
C30_ResponsesWellFormed ==
    last # NoLast =>
        /\ last.resp.status \in {200, 400, 401, 403, 404, 500}
        /\ last.resp.status # 200 => last.resp.err \notin Exceptions
        /\ last.resp.status \in {401, 403} => AnsweredByUnit

\* ---- requests and the reset
\* C32: once the start has loaded the datasets, no request finds the dataset of its
\* route missing: none is answered 500 "dataset not found" and no lookup of
\* self.data[data_set] fails, a reset in progress or not.
C32_DatasetAlwaysPresent ==
    /\ last.resp # Response(500, "dataset not found")
    /\ last.resp # Unhandled("KeyError")

\* this step is the return of reset_datasets
ResetReturns == ResetLoad /\ ~reset'.active

\* C33: when reset_datasets returns, every dataset that was loaded when it began is
\* loaded and is its seed list, whatever the handlers did meanwhile.
C33_ResetRestoresSeedDespiteDelete ==
    [][ResetReturns =>
          \A ds \in Names(reset.names) :
              /\ ds \in DOMAIN data'
              /\ HasSeedList(ds) => data'[ds] = SeedOf(ds)]_vars

\* ---- handlers among themselves
\* a handler runs in this step: a request arrives, or a suspended handler is resumed
\* after its await
HandlerRuns ==
    \/ \E rt \in RouteIds, hdr \in Headers : Begin(rt, hdr)
    \/ \E q \in InFlight : MwReturn(q) \/ JsonReturn(q)
\* a handler has read the dataset and has yet to write
MidBody == \E q \in InFlight : q.pc = "store"

\* C31: between a handler's read of the dataset and its own write no other handler runs;
\* a PUT that answers 200 rewrites a record that matches its criteria in the store as it
\* is at that step, a POST appends to the store as it is at that step, and the list a
\* DELETE is about to store is the store's list of that step without the records that
\* match its criteria.
C31_ReadThenWriteAtomic ==
    [][/\ MidBody => ~HandlerRuns
       /\ \A q \in InFlight :
             (JsonReturn(q) /\ last'.body /\ last'.resp.status = 200) =>
                LET ds == routes[q.rt].data_set IN
                IF routes[q.rt].method = "PUT"
                THEN \E inp \in PutInputs(q.rt) :
                        \E p \in PutMatches(q.rt, inp) :
                            /\ PutMatches(q.rt, inp) = {p}
                            /\ data' = [data EXCEPT ![ds] = [data[ds] EXCEPT ![p] = last'.content.v]]
                ELSE \/ data' = data
                     \/ data' = [data EXCEPT ![ds] = Append(data[ds], last'.content.v)]
       /\ \A q \in BagToSet(reqs') \ InFlight :
             q.pc = "store" =>
                \E inp \in DeleteInputs(q.rt) :
                    /\ DeleteMatches(q.rt, inp) # {}
                    /\ q.list = RecordsAt(DataOf(q.rt), DOMAIN DataOf(q.rt) \ DeleteMatches(q.rt, inp))
      ]_vars

\* a DELETE handler has read the dataset and is about to store its list while a PUT
\* handler is suspended at `await request.json()`
C31_Witness ==
    \E q1, q2 \in InFlight :
        /\ q1.pc = "store"
        /\ q2.pc = "json" /\ routes[q2.rt].method = "PUT"
        /\ routes[q1.rt].data_set = routes[q2.rt].data_set

\* ---- what a request leaves alone
\* C35: the metadata a handler holds for its route is always the metadata of the
\* configuration: no fail_next is left in it, and singular_response, creates_entry and
\* accepted_roles stay as configured, whatever the units of the chain were given.
C35_RouteMetadataNeverModified ==
    \A rt \in DOMAIN meta :
        /\ meta[rt] = routes[rt].metadata
        /\ "fail_next" \notin DOMAIN meta[rt]

\* permissions_token was given the metadata with fail_next set and answered the simulated
\* failure; the route's metadata is as configured
C35_Witness ==
    /\ last.rt \in DOMAIN meta
    /\ last.trace = << <<"permissions_token", "response">> >>
    /\ last.resp = Response(403, "Simulated auth failure")
    /\ meta[last.rt] = routes[last.rt].metadata

\* ---- one middleware flag for all routes
SimulatedAuthFailure == Response(403, "Simulated auth failure")
\* the requests that enter run_middleware in this step
EntersUnit == {p \in BagToSet(reqs') \ InFlight : p.pc = "mw"}

\* C34: the flag of a unit is one flag for all routes.  A request on any route that
\* enters the unit reads the flag middleware:{name}; the request that makes the unit
\* consume the flag is answered with the simulated failure and the flag is false from
\* then on; and a request on any route that enters the unit while the flag is false is
\* not failed by it.
C34_MiddlewareFlagSharedByRoutes ==
    [][/\ \A q \in InFlight :
             (MwReturn(q) /\ Consumes(q.name, q.rt, q.hdr, q.inj)) =>
                /\ last'.rt = q.rt
                /\ last'.resp = SimulatedAuthFailure
                /\ ~fail_next'[MiddlewareKey(q.name)]
       /\ \A p \in EntersUnit :
             /\ p.inj = fail_next'[MiddlewareKey(p.name)]
             /\ ~p.inj => UnitReturn(p.name, p.rt, p.hdr, p.inj).resp # SimulatedAuthFailure
      ]_vars

\* a request on one route was answered with the simulated failure of permissions_token,
\* the flag is false, and a request on another route is in the unit with the flag read
\* as false: the unit will let it pass
C34_Witness ==
    /\ last.trace = << <<"permissions_token", "response">> >>
    /\ last.resp = SimulatedAuthFailure
    /\ ~FlagSet(MiddlewareKey("permissions_token"))
    /\ \E p \in InFlight :
          /\ p.pc = "mw" /\ p.name = "permissions_token"
          /\ p.rt # last.rt
          /\ ~p.inj
          /\ UnitReturn(p.name, p.rt, p.hdr, p.inj).resp = None

\* a handler runs or stores in this step
RequestStep == HandlerRuns \/ \E q \in InFlight : DeleteStore(q)
\* a request ends in this step
RequestEnds == BagCardinality(reqs') < BagCardinality(reqs) \/ (reqs' = reqs /\ HandlerRuns)
\* no request step changes the set of loaded dataset names
NamesKept == DOMAIN data' = DOMAIN data
\* a GET and a request answered with another status than 200 change no dataset
ReadOnlyKept ==
    (RequestEnds /\ (last'.resp.status # 200 \/ routes[last'.rt].method = "GET")) =>
        data' = data
\* a request step changes no dataset but that of its route
OtherDatasetsKept ==
    \A q \in InFlight \cup BagToSet(reqs') :
        (BagToSet(reqs') \cup InFlight = {q} \/ (RequestEnds /\ last'.rt = q.rt)) =>
            \A ds \in DOMAIN data \cap DOMAIN data' :
                ds # routes[q.rt].data_set => data'[ds] = data[ds]

\* C36: a GET and every request answered with a status other than 200 leave all
\* datasets unchanged; a 200 POST, PUT or DELETE changes only the dataset of its route;
\* and no request changes the set of loaded dataset names.
C36_RequestsChangeOnlyTheirDataset ==
    [][RequestStep => (ReadOnlyKept /\ OtherDatasetsKept /\ NamesKept)]_vars

\* a PUT on route rt ends in this step with 200
PutSucceeds(rt) ==
    /\ routes[rt].method = "PUT"
    /\ last'.rt = rt /\ last'.body /\ last'.resp.status = 200
    /\ Ended(rt)

\* C37: a PUT answered with 200 keeps the length of the dataset; the record of the
\* response is the record now stored, at the position and with the id of the record it
\* replaces; and every other record stays what and where it was.
C37_PutKeepsLengthAndPosition ==
    [][\A rt \in RouteIds :
          PutSucceeds(rt) =>
              LET before == data[routes[rt].data_set]
                  after == data'[routes[rt].data_set]
              IN /\ Len(after) = Len(before)
                 /\ last'.content.kind = "record"
                 /\ \E p \in DOMAIN before :
                       /\ after[p] = last'.content.v
                       /\ after[p].id = before[p].id
                       /\ \A n \in DOMAIN before \ {p} : after[n] = before[n]]_vars
\* a PUT has rewritten the second of two records, the first one standing before it
C37_Witness ==
    /\ last # NoLast /\ last.body
    /\ routes[last.rt].method = "PUT"
    /\ last.resp.status = 200
    /\ Len(DataOf(last.rt)) = 2
    /\ DataOf(last.rt)[2] = last.content.v
    /\ DataOf(last.rt)[2].name = StrB
    /\ DataOf(last.rt)[1] = Configs[cfg].seed[routes[last.rt].data_set][1]

\* the fields other than id of the record that is now the first of the dataset of rt
FirstRecordFields(rt) == IF DataOf(rt) = <<>> THEN {} ELSE DOMAIN DataOf(rt)[1] \ {"id"}
\* the fields other than id of the first record of the seed of the dataset of rt
SeedRecordFields(rt) ==
    LET seed == load_seed_data(routes[rt].data_set)
    IN IF seed = <<>> THEN {} ELSE DOMAIN seed[1] \ {"id"}
\* the POST was refused for the template fields `names`
RefusedFor(res, names) ==
    /\ res.resp = Response(400, "Missing required fields")
    /\ ContentIs(res.content, FieldNames(names))

\* C38: a POST with a non-empty object body is refused for missing fields exactly when
\* the body lacks a field of the record that is the first of the dataset at that time,
\* whatever the seed holds; on an empty dataset every such body is accepted, and the
\* record it appends is the first record, the template of later requests.
C38_PostTemplateIsCurrentFirstRecord ==
    \A rt \in RoutesOf("POST") :
        \A body \in {b \in Bodies : b.kind = "obj" /\ ~Falsy(b)} :
            LET res == PostAnswer(rt, body)
                lacking == FirstRecordFields(rt) \ DOMAIN body.fields
            IN /\ lacking # {} => (RefusedFor(res, lacking) /\ res.data = data)
               /\ lacking = {} => res.resp.status = 200
               /\ (DataOf(rt) = <<>> /\ CreatesEntry(rt)) =>
                     /\ res.resp.status = 200
                     /\ Len(res.data[routes[rt].data_set]) = 1
                     /\ DOMAIN res.data[routes[rt].data_set][1] \ {"id"} =
                            DOMAIN body.fields \ {"id"}
\* after a DELETE had emptied the dataset a POST appended a record with the field title,
\* which no record of the seed has, and a later POST was refused for lacking that field
C38_Witness ==
    /\ last # NoLast /\ last.body
    /\ last.rt \in RoutesOf("POST")
    /\ SeedRecordFields(last.rt) = {"name"}
    /\ FirstRecordFields(last.rt) = {"title"}
    /\ last.resp = Response(400, "Missing required fields")
    /\ ContentIs(last.content, FieldNames({"title"}))
\* after a PUT had given the first record the field name, which the seed record lacks,
\* a POST was refused for lacking that field
C38_AfterPut ==
    /\ last # NoLast /\ last.body
    /\ last.rt \in RoutesOf("POST")
    /\ SeedRecordFields(last.rt) = {}
    /\ FirstRecordFields(last.rt) = {"name"}
    /\ last.resp = Response(400, "Missing required fields")
    /\ ContentIs(last.content, FieldNames({"name"}))

\* the header carries the token that the unit's configuration gives one of the roles
TokenOfAcceptedRole(hdr, config, metadata) ==
    \E role \in DOMAIN config["accepted_tokens"] :
        /\ \E n \in DOMAIN metadata["accepted_roles"] : metadata["accepted_roles"][n] = role
        /\ hdr = Bearer(config["accepted_tokens"][role])
\* the request q, in permissions_token, returns from it in this step
LeavesPermissionsToken(q) == q.pc = "mw" /\ q.name = "permissions_token" /\ MwReturn(q)
\* the request q is answered by the unit in this step, with the status `status`
AnsweredByUnitWith(q, status) ==
    /\ reqs' = reqs (-) SetToBag({q})
    /\ last'.rt = q.rt /\ ~last'.body
    /\ last'.resp.status = status
\* the flag of permissions_token is in this step what it was
FlagKept ==
    fail_next'[MiddlewareKey("permissions_token")] = fail_next[MiddlewareKey("permissions_token")]

\* C39: permissions_token decides in a fixed order.  Without accepted_tokens in its
\* configuration or accepted_roles in the route's metadata the request is answered 500 and
\* the flag is left as it is, also when the flag was read as set; otherwise a flag read as
\* set gives 403 "Simulated auth failure" whatever the Authorization header, and the flag
\* is false afterwards; otherwise a missing header and a token of no accepted role give 401
\* and a token of an accepted role lets the request go on, the flag left as it is.
C39_PermissionsTokenOutcomeOrder ==
    [][\A q \in InFlight :
          LeavesPermissionsToken(q) =>
              LET config == middleware_config["permissions_token"]
                  metadata == meta[q.rt]
              IN IF "accepted_tokens" \notin DOMAIN config \/ "accepted_roles" \notin DOMAIN metadata
                 THEN AnsweredByUnitWith(q, 500) /\ FlagKept
                 ELSE IF q.inj
                 THEN /\ AnsweredByUnitWith(q, 403)
                      /\ last'.resp = SimulatedAuthFailure
                      /\ ~fail_next'[MiddlewareKey("permissions_token")]
                 ELSE IF q.hdr = NoHeader \/ ~TokenOfAcceptedRole(q.hdr, config, metadata)
                 THEN AnsweredByUnitWith(q, 401) /\ FlagKept
                 ELSE /\ FlagKept
                      /\ \/ last' = last
                         \/ last'.trace[1] = <<"permissions_token", "continue">>]_vars
\* a request on a route whose metadata has no accepted_roles was answered 500 by the
\* unit while the unit's flag was set, and the flag is still set
C39_Witness ==
    /\ last.trace = << <<"permissions_token", "response">> >>
    /\ "accepted_roles" \notin DOMAIN routes[last.rt].metadata
    /\ last.resp = Response(500, "Missing required metadata key")
    /\ FlagSet(MiddlewareKey("permissions_token"))
\* the same with a configuration without accepted_tokens
C39_WithoutTokens ==
    /\ "permissions_token" \in DOMAIN Configs[cfg].middleware
    /\ "accepted_tokens" \notin DOMAIN Configs[cfg].middleware["permissions_token"]
    /\ last.trace = << <<"permissions_token", "response">> >>
    /\ last.resp = Response(500, "Missing required config key")
    /\ FlagSet(MiddlewareKey("permissions_token"))
====
